---- MODULE Spec2Model ----
(***************************************************************************)
(* A model of GoogleFormsCreator (src/createGoogleForm.py): the            *)
(* orchestration of create_form_from_config (createForm, settings          *)
(* batchUpdate, questions batchUpdate, getForm) and the per-type request   *)
(* builders behind _create_question_request.                               *)
(*                                                                         *)
(* Python values are modelled as follows.  A str is a TLA+ string (TLC     *)
(* evaluates Len, Head, Tail, SubSeq and \o on strings).  A dict key that  *)
(* may be missing is a record [has, val]: has = FALSE is the missing key.  *)
(* correct_answer may be an int or a str and is a record [kind, n, s].     *)
(***************************************************************************)
EXTENDS Integers, Sequences, FiniteSets, TLC

VARIABLES
    config,     \* form_config, the argument of create_form_from_config
    pc,         \* position inside create_form_from_config
    requests,   \* the local list `requests` of _add_questions_to_form
    trace,      \* the remote calls executed so far, oldest first
    remote,     \* what the calls have left on the remote service
    error,      \* the exception that ended the run, if any
    result      \* the returned dictionary, if any

vars == <<config, pc, requests, trace, remote, error, result>>

(***************************************************************************)
(* Bounds of the model.                                                    *)
(***************************************************************************)
MaxQuestions == 2

(***************************************************************************)
(* Python built-ins used by the source.                                    *)
(***************************************************************************)
LowerLetters == "abcdefghijklmnopqrstuvwxyz"
UpperLetters == "ABCDEFGHIJKLMNOPQRSTUVWXYZ"
Digits == "0123456789"
Whitespace == {" ", "\t", "\n", "\r", "\f"}

\* one character of str.upper()
UpperChar(c) ==
    IF \E i \in 1..Len(LowerLetters) : SubSeq(LowerLetters, i, i) = c
    THEN LET i == CHOOSE i \in 1..Len(LowerLetters) : SubSeq(LowerLetters, i, i) = c
         IN  SubSeq(UpperLetters, i, i)
    ELSE c

RECURSIVE Upper(_)
\* str.upper()
Upper(s) == IF s = "" THEN "" ELSE UpperChar(Head(s)) \o Upper(Tail(s))

\* str.startswith(prefix)
StartsWith(s, prefix) ==
    /\ Len(s) >= Len(prefix)
    /\ SubSeq(s, 1, Len(prefix)) = prefix

RECURSIVE LStrip(_)
LStrip(s) == IF s # "" /\ Head(s) \in Whitespace THEN LStrip(Tail(s)) ELSE s

RECURSIVE RStrip(_)
RStrip(s) ==
    IF s # "" /\ SubSeq(s, Len(s), Len(s)) \in Whitespace
    THEN RStrip(SubSeq(s, 1, Len(s) - 1))
    ELSE s

\* str.strip()
Strip(s) == RStrip(LStrip(s))

RECURSIVE NatStr(_)
NatStr(n) ==
    IF n < 10 THEN SubSeq(Digits, n + 1, n + 1)
    ELSE NatStr(n \div 10) \o SubSeq(Digits, (n % 10) + 1, (n % 10) + 1)

\* str(n) of an int
IntStr(n) == IF n < 0 THEN "-" \o NatStr(-n) ELSE NatStr(n)

(***************************************************************************)
(* Dictionary access.                                                      *)
(***************************************************************************)
NoStr == [has |-> FALSE, val |-> ""]
SomeStr(s) == [has |-> TRUE, val |-> s]
NoInt == [has |-> FALSE, val |-> 0]
SomeInt(n) == [has |-> TRUE, val |-> n]
NoList == [has |-> FALSE, val |-> <<>>]
SomeList(l) == [has |-> TRUE, val |-> l]
NoBool == [has |-> FALSE, val |-> FALSE]
SomeBool(b) == [has |-> TRUE, val |-> b]
NoAnswer == [kind |-> "absent", n |-> 0, s |-> ""]
IntAnswer(n) == [kind |-> "int", n |-> n, s |-> ""]
StrAnswer(s) == [kind |-> "str", n |-> 0, s |-> s]

\* d.get(key, default)
Get(field, default) == IF field.has THEN field.val ELSE default

\* truth value of d.get(key) for a str value: None and "" are false
TruthyStr(field) == field.has /\ field.val # ""

\* truth value of d.get(key) for a list value: None and [] are false
TruthyList(field) == field.has /\ Len(field.val) > 0

\* truth value of config.get("correct_answer"): None, 0 and "" are false
TruthyAnswer(a) ==
    CASE a.kind = "absent" -> FALSE
      [] a.kind = "int"    -> a.n # 0
      [] a.kind = "str"    -> a.s # ""

\* str(config.get("correct_answer"))
AnswerStr(a) ==
    CASE a.kind = "absent" -> "None"
      [] a.kind = "int"    -> IntStr(a.n)
      [] a.kind = "str"    -> a.s

(***************************************************************************)
(* Literals of the source.                                                 *)
(***************************************************************************)
PlaceholderUrl == "https://example.com/code-snippet.png"
PlaceholderPrefix == "https://example.com"
PlaceholderNote == "[Note: Image placeholder removed - please add a valid image URL]"
DefaultFormTitle == "API-created form"

(***************************************************************************)
(* The request builders.  A request is the createItem dictionary:          *)
(* index is location.index, description is item.description, kind,         *)
(* choiceType and paragraph tell the question body, grading is             *)
(* question.grading (present = FALSE: no such key) and image is            *)
(* questionItem.image.sourceUri (has = FALSE: no such key).                *)
(***************************************************************************)
NoGrading ==
    [present |-> FALSE, pointValue |-> 0, hasCorrectAnswers |-> FALSE,
     correctAnswers |-> <<>>, whenRight |-> NoStr, whenWrong |-> NoStr,
     generalFeedback |-> NoStr]

\* grading["whenRight"], grading["whenWrong"], grading["generalFeedback"]
FeedbackText(field) == IF TruthyStr(field) THEN SomeStr(field.val) ELSE NoStr

\* ImageAttachment without the startswith test
ImageAttachmentExactOnly(q) ==
    IF /\ TruthyStr(q.image_url)
       /\ q.image_url.val # PlaceholderUrl
    THEN SomeStr(q.image_url.val)
    ELSE NoStr

\* the image_url test shared by the five builders
ImageAttachment(q) ==
    IF /\ TruthyStr(q.image_url)
       /\ q.image_url.val # PlaceholderUrl
       /\ ~StartsWith(q.image_url.val, PlaceholderPrefix)
    THEN SomeStr(q.image_url.val)
    ELSE NoStr

\* ChoiceGrading without the is_quiz test
ChoiceGradingAnyForm(q, is_quiz) ==
    IF TruthyList(q.correct_answers)
    THEN [present |-> TRUE, pointValue |-> Get(q.points, 1),
          hasCorrectAnswers |-> TRUE,
          correctAnswers |-> q.correct_answers.val,
          whenRight |-> FeedbackText(q.feedback.correct),
          whenWrong |-> FeedbackText(q.feedback.incorrect),
          generalFeedback |-> NoStr]
    ELSE NoGrading

\* the grading block of _create_choice_question and _create_image_question
ChoiceGrading(q, is_quiz) ==
    IF is_quiz /\ TruthyList(q.correct_answers)
    THEN [present |-> TRUE, pointValue |-> Get(q.points, 1),
          hasCorrectAnswers |-> TRUE,
          correctAnswers |-> q.correct_answers.val,
          whenRight |-> FeedbackText(q.feedback.correct),
          whenWrong |-> FeedbackText(q.feedback.incorrect),
          generalFeedback |-> NoStr]
    ELSE NoGrading

\* TextGrading with the two branches tested in the other order
TextGradingPointsFirst(q, is_quiz) ==
    IF is_quiz /\ Get(q.points, 0) > 0
    THEN [present |-> TRUE, pointValue |-> Get(q.points, 1),
          hasCorrectAnswers |-> FALSE, correctAnswers |-> <<>>,
          whenRight |-> NoStr, whenWrong |-> NoStr,
          generalFeedback |-> FeedbackText(q.feedback.general)]
    ELSE IF is_quiz /\ TruthyList(q.correct_answers)
    THEN [present |-> TRUE, pointValue |-> Get(q.points, 1),
          hasCorrectAnswers |-> TRUE,
          correctAnswers |-> Get(q.correct_answers, <<>>),
          whenRight |-> NoStr, whenWrong |-> NoStr,
          generalFeedback |-> FeedbackText(q.feedback.general)]
    ELSE NoGrading

\* the grading block of _create_text_question
TextGrading(q, is_quiz) ==
    IF is_quiz /\ TruthyList(q.correct_answers)
    THEN [present |-> TRUE, pointValue |-> Get(q.points, 1),
          hasCorrectAnswers |-> TRUE,
          correctAnswers |-> Get(q.correct_answers, <<>>),
          whenRight |-> NoStr, whenWrong |-> NoStr,
          generalFeedback |-> FeedbackText(q.feedback.general)]
    ELSE IF is_quiz /\ Get(q.points, 0) > 0
    THEN [present |-> TRUE, pointValue |-> Get(q.points, 1),
          hasCorrectAnswers |-> FALSE, correctAnswers |-> <<>>,
          whenRight |-> NoStr, whenWrong |-> NoStr,
          generalFeedback |-> FeedbackText(q.feedback.general)]
    ELSE NoGrading

\* the grading block of _create_paragraph_question
ParagraphGrading(q, is_quiz) ==
    IF is_quiz /\ Get(q.points, 0) > 0
    THEN [present |-> TRUE, pointValue |-> Get(q.points, 1),
          hasCorrectAnswers |-> FALSE, correctAnswers |-> <<>>,
          whenRight |-> NoStr, whenWrong |-> NoStr,
          generalFeedback |-> FeedbackText(q.feedback.general)]
    ELSE NoGrading

\* the grading block of _create_scale_question
ScaleGrading(q, is_quiz) ==
    IF is_quiz /\ TruthyAnswer(q.correct_answer)
    THEN [present |-> TRUE, pointValue |-> Get(q.points, 1),
          hasCorrectAnswers |-> TRUE,
          correctAnswers |-> <<AnswerStr(q.correct_answer)>>,
          whenRight |-> NoStr, whenWrong |-> NoStr,
          generalFeedback |-> NoStr]
    ELSE IF is_quiz /\ Get(q.points, 0) > 0
    THEN [present |-> TRUE, pointValue |-> Get(q.points, 1),
          hasCorrectAnswers |-> FALSE, correctAnswers |-> <<>>,
          whenRight |-> NoStr, whenWrong |-> NoStr,
          generalFeedback |-> NoStr]
    ELSE NoGrading

\* the description of _create_image_question after the placeholder branch
ImageDescription(q) ==
    LET current_desc == Get(q.description, "")
        image_url == q.image_url
    IN  IF /\ TruthyStr(image_url)
           /\ image_url.val # PlaceholderUrl
           /\ ~StartsWith(image_url.val, PlaceholderPrefix)
        THEN current_desc
        ELSE IF /\ TruthyStr(image_url)
                /\ \/ image_url.val = PlaceholderUrl
                   \/ StartsWith(image_url.val, PlaceholderPrefix)
        THEN Strip(current_desc \o "\n" \o PlaceholderNote)
        ELSE current_desc

create_choice_question(q, index, is_quiz) ==
    [index |-> index, kind |-> "choiceQuestion",
     choiceType |-> Upper(Get(q.type, "RADIO")), paragraph |-> FALSE,
     description |-> Get(q.description, ""),
     grading |-> ChoiceGrading(q, is_quiz),
     image |-> ImageAttachment(q)]

create_text_question(q, index, is_quiz) ==
    [index |-> index, kind |-> "textQuestion",
     choiceType |-> "", paragraph |-> FALSE,
     description |-> Get(q.description, ""),
     grading |-> TextGrading(q, is_quiz),
     image |-> ImageAttachment(q)]

create_paragraph_question(q, index, is_quiz) ==
    [index |-> index, kind |-> "textQuestion",
     choiceType |-> "", paragraph |-> TRUE,
     description |-> Get(q.description, ""),
     grading |-> ParagraphGrading(q, is_quiz),
     image |-> ImageAttachment(q)]

create_scale_question(q, index, is_quiz) ==
    [index |-> index, kind |-> "scaleQuestion",
     choiceType |-> "", paragraph |-> FALSE,
     description |-> Get(q.description, ""),
     grading |-> ScaleGrading(q, is_quiz),
     image |-> ImageAttachment(q)]

create_image_question(q, index, is_quiz) ==
    [index |-> index, kind |-> "choiceQuestion",
     choiceType |-> "RADIO", paragraph |-> FALSE,
     description |-> ImageDescription(q),
     grading |-> ChoiceGrading(q, is_quiz),
     image |-> ImageAttachment(q)]

NullRequest ==
    [index |-> 0, kind |-> "", choiceType |-> "", paragraph |-> FALSE,
     description |-> "", grading |-> NoGrading, image |-> NoStr]

\* question_type of _create_question_request
QuestionType(q) == Upper(Get(q.type, "RADIO"))

\* _create_question_request with an unknown type built as a choice question
create_question_request_lenient(q, index, is_quiz) ==
    LET question_type == QuestionType(q)
    IN  IF question_type = "TEXT"
        THEN [ok |-> TRUE, req |-> create_text_question(q, index, is_quiz), err |-> ""]
        ELSE IF question_type = "PARAGRAPH_TEXT"
        THEN [ok |-> TRUE, req |-> create_paragraph_question(q, index, is_quiz), err |-> ""]
        ELSE IF question_type = "SCALE"
        THEN [ok |-> TRUE, req |-> create_scale_question(q, index, is_quiz), err |-> ""]
        ELSE IF question_type = "IMAGE"
        THEN [ok |-> TRUE, req |-> create_image_question(q, index, is_quiz), err |-> ""]
        ELSE [ok |-> TRUE, req |-> create_choice_question(q, index, is_quiz), err |-> ""]

\* _create_question_request: ok = FALSE is the raised ValueError, whose
\* message names err
create_question_request(q, index, is_quiz) ==
    LET question_type == QuestionType(q)
    IN  IF question_type \in {"RADIO", "CHECKBOX"}
        THEN [ok |-> TRUE, req |-> create_choice_question(q, index, is_quiz), err |-> ""]
        ELSE IF question_type = "TEXT"
        THEN [ok |-> TRUE, req |-> create_text_question(q, index, is_quiz), err |-> ""]
        ELSE IF question_type = "PARAGRAPH_TEXT"
        THEN [ok |-> TRUE, req |-> create_paragraph_question(q, index, is_quiz), err |-> ""]
        ELSE IF question_type = "SCALE"
        THEN [ok |-> TRUE, req |-> create_scale_question(q, index, is_quiz), err |-> ""]
        ELSE IF question_type = "IMAGE"
        THEN [ok |-> TRUE, req |-> create_image_question(q, index, is_quiz), err |-> ""]
        ELSE [ok |-> FALSE, req |-> NullRequest, err |-> question_type]

(***************************************************************************)
(* create_form_from_config.                                                *)
(***************************************************************************)
\* form_config.get("form_info", {"title": "API-created form"})
FormInfo(cfg) ==
    IF cfg.form_info.has
    THEN [title |-> cfg.form_info.title, description |-> cfg.form_info.description]
    ELSE [title |-> SomeStr(DefaultFormTitle), description |-> NoStr]

\* form_info.get("title", "API-created form")
FormTitle(cfg) == Get(FormInfo(cfg).title, DefaultFormTitle)

\* is_quiz = form_config.get("is_quiz", True)
IsQuiz(cfg) == Get(cfg.is_quiz, TRUE)

\* DescriptionRequests testing the presence of the key, not its truth value
DescriptionRequestsIfPresent(cfg) ==
    IF FormInfo(cfg).description.has
    THEN << [kind |-> "updateFormInfo", title |-> FormTitle(cfg),
             description |-> Get(FormInfo(cfg).description, ""),
             isQuiz |-> FALSE, updateMask |-> "description"] >>
    ELSE << >>

\* the updateFormInfo request, appended if form_info.get("description")
DescriptionRequests(cfg) ==
    IF TruthyStr(FormInfo(cfg).description)
    THEN << [kind |-> "updateFormInfo", title |-> FormTitle(cfg),
             description |-> Get(FormInfo(cfg).description, ""),
             isQuiz |-> FALSE, updateMask |-> "description"] >>
    ELSE << >>

\* QuizRequests of a run that never enables quiz mode
QuizRequestsNever(cfg) == << >>

\* the updateSettings request, appended if is_quiz
QuizRequests(cfg) ==
    IF IsQuiz(cfg)
    THEN << [kind |-> "updateSettings", title |-> "", description |-> "",
             isQuiz |-> TRUE, updateMask |-> "quizSettings.isQuiz"] >>
    ELSE << >>

\* the list `requests` of create_form_from_config at line 115
SettingsRequests(cfg) == DescriptionRequests(cfg) \o QuizRequests(cfg)

\* a remote call as the service sees it; ok = FALSE: execute() raised
CreateCall(cfg, ok) ==
    [op |-> "createForm", phase |-> "create", title |-> FormTitle(cfg),
     ops |-> << >>, items |-> << >>, ok |-> ok]

SettingsCall(cfg, ok) ==
    [op |-> "batchUpdate", phase |-> "settings", title |-> "",
     ops |-> SettingsRequests(cfg), items |-> << >>, ok |-> ok]

QuestionsCall(reqs, ok) ==
    [op |-> "batchUpdate", phase |-> "questions", title |-> "",
     ops |-> << >>, items |-> reqs, ok |-> ok]

GetCall(ok) ==
    [op |-> "getForm", phase |-> "get", title |-> "",
     ops |-> << >>, items |-> << >>, ok |-> ok]

NoError == [kind |-> "none", value |-> ""]
RemoteCallFailure == [kind |-> "RemoteCallFailure", value |-> ""]
\* ValueError(f"Unsupported question type: {question_type}")
UnsupportedType(question_type) == [kind |-> "ValueError", value |-> question_type]

NoResult == [has |-> FALSE, form_id |-> "", edit_uri |-> ""]
FormId == "form1"
\* the returned dictionary
FormResult(form_id) ==
    [has |-> TRUE, form_id |-> form_id,
     edit_uri |-> "https://docs.google.com/forms/d/" \o form_id \o "/edit"]

NoRemote == [exists |-> FALSE, isQuiz |-> FALSE, description |-> "", items |-> 0]

\* AfterCall of a run that swallows the exception of execute()
AfterCallSwallowed(ok, next) == next

\* where the run continues after a remote call: an exception of execute()
\* is not caught anywhere in create_form_from_config
AfterCall(ok, next) == IF ok THEN next ELSE "failed"

\* `if questions:` at line 121
AfterSettings(cfg) == IF Len(cfg.questions) > 0 THEN "build" ELSE "get"

\* the effect of a settings batch on the remote form
RemoteAfterSettings(r, ops) ==
    [r EXCEPT !.isQuiz = r.isQuiz \/ (\E i \in 1..Len(ops) : ops[i].kind = "updateSettings"),
              !.description = IF \E i \in 1..Len(ops) : ops[i].kind = "updateFormInfo"
                              THEN (CHOOSE o \in {ops[i] : i \in 1..Len(ops)} :
                                        o.kind = "updateFormInfo").description
                              ELSE r.description]

\* AppendRequest inserting at the front
PrependRequest(reqs, request) == <<request>> \o reqs

\* requests.append(request) at line 139
AppendRequest(reqs, request) == Append(reqs, request)

\* service.forms().create(body=new_form).execute()
CreateForm ==
    /\ pc = "create"
    /\ \E ok \in BOOLEAN :
        /\ trace' = Append(trace, CreateCall(config, ok))
        /\ pc' = AfterCall(ok, "settings")
        /\ remote' = IF ok THEN [remote EXCEPT !.exists = TRUE] ELSE remote
        /\ error' = IF ok THEN error ELSE RemoteCallFailure
    /\ UNCHANGED <<config, requests, result>>

\* lines 85-117: the settings batchUpdate, skipped when `requests` is empty
ApplySettings ==
    /\ pc = "settings"
    /\ IF Len(SettingsRequests(config)) > 0
       THEN \E ok \in BOOLEAN :
            /\ trace' = Append(trace, SettingsCall(config, ok))
            /\ pc' = AfterCall(ok, AfterSettings(config))
            /\ remote' = IF ok THEN RemoteAfterSettings(remote, SettingsRequests(config))
                         ELSE remote
            /\ error' = IF ok THEN error ELSE RemoteCallFailure
       ELSE /\ pc' = AfterSettings(config)
            /\ UNCHANGED <<trace, remote, error>>
    /\ UNCHANGED <<config, requests, result>>

\* one iteration of the loop of _add_questions_to_form
BuildRequest ==
    /\ pc = "build"
    /\ Len(requests) < Len(config.questions)
    /\ LET index == Len(requests)
           built == create_question_request(config.questions[index + 1], index,
                                            IsQuiz(config))
       IN  IF built.ok
           THEN /\ requests' = AppendRequest(requests, built.req)
                /\ UNCHANGED <<pc, error>>
           ELSE /\ pc' = "failed"
                /\ error' = UnsupportedType(built.err)
                /\ UNCHANGED requests
    /\ UNCHANGED <<config, trace, remote, result>>

\* lines 141-143: the questions batchUpdate
SubmitQuestions ==
    /\ pc = "build"
    /\ Len(requests) = Len(config.questions)
    /\ IF Len(requests) > 0
       THEN \E ok \in BOOLEAN :
            /\ trace' = Append(trace, QuestionsCall(requests, ok))
            /\ pc' = AfterCall(ok, "get")
            /\ remote' = IF ok THEN [remote EXCEPT !.items = Len(requests)] ELSE remote
            /\ error' = IF ok THEN error ELSE RemoteCallFailure
       ELSE /\ pc' = "get"
            /\ UNCHANGED <<trace, remote, error>>
    /\ UNCHANGED <<config, requests, result>>

\* lines 125-131: getForm and the return
GetForm ==
    /\ pc = "get"
    /\ \E ok \in BOOLEAN :
        /\ trace' = Append(trace, GetCall(ok))
        /\ pc' = AfterCall(ok, "done")
        /\ result' = IF ok THEN FormResult(FormId) ELSE result
        /\ error' = IF ok THEN error ELSE RemoteCallFailure
    /\ UNCHANGED <<config, requests, remote>>

(***************************************************************************)
(* The configurations explored.                                            *)
(***************************************************************************)
BaseQuestion ==
    [type |-> NoStr, description |-> NoStr, correct_answers |-> NoList,
     correct_answer |-> NoAnswer, points |-> NoInt,
     feedback |-> [general |-> NoStr, correct |-> NoStr, incorrect |-> NoStr],
     image_url |-> NoStr]

\* the questions of the runs of create_form_from_config
RunQuestions ==
    { [BaseQuestion EXCEPT !.type = SomeStr("RADIO"),
                           !.correct_answers = SomeList(<<"A">>),
                           !.points = SomeInt(2)],
      [BaseQuestion EXCEPT !.type = SomeStr("checkbox")],
      [BaseQuestion EXCEPT !.type = SomeStr("Text"),
                           !.correct_answers = SomeList(<<"Paris">>),
                           !.points = SomeInt(5)],
      [BaseQuestion EXCEPT !.type = SomeStr("PARAGRAPH_TEXT"),
                           !.points = SomeInt(0)],
      [BaseQuestion EXCEPT !.type = SomeStr("SCALE"),
                           !.correct_answer = StrAnswer("7"),
                           !.points = SomeInt(3)],
      [BaseQuestion EXCEPT !.type = SomeStr("IMAGE"),
                           !.image_url = SomeStr(PlaceholderUrl)],
      [BaseQuestion EXCEPT !.type = SomeStr("DATE")],
      [BaseQuestion EXCEPT !.type = SomeStr("date"),
                           !.correct_answers = SomeList(<<"A">>)] }

RECURSIVE SeqsUpTo(_, _)
\* the sequences over S of length at most n
SeqsUpTo(S, n) ==
    IF n = 0 THEN { << >> }
    ELSE LET shorter == SeqsUpTo(S, n - 1)
         IN  shorter \cup { Append(s, x) : s \in shorter, x \in S }

FormInfos ==
    { [has |-> FALSE, title |-> NoStr, description |-> NoStr],
      [has |-> TRUE, title |-> SomeStr("T"), description |-> NoStr],
      [has |-> TRUE, title |-> SomeStr("T"), description |-> SomeStr("")],
      [has |-> TRUE, title |-> SomeStr("T"), description |-> SomeStr("D")],
      [has |-> TRUE, title |-> NoStr, description |-> SomeStr("D")] }

IsQuizValues == { NoBool, SomeBool(TRUE), SomeBool(FALSE) }

RunConfigs ==
    [form_info : FormInfos, is_quiz : IsQuizValues,
     questions : SeqsUpTo(RunQuestions, MaxQuestions)]

\* the questions given to the request builders
TypeValues ==
    { NoStr, SomeStr("RADIO"), SomeStr("checkbox"), SomeStr("Text"),
      SomeStr("PARAGRAPH_TEXT"), SomeStr("scale"), SomeStr("Image"),
      SomeStr("DATE") }
DescriptionValues == { NoStr, SomeStr("Pick"), SomeStr(" Pick") }
CorrectAnswersValues == { NoList, SomeList(<< >>), SomeList(<<"B", "A">>) }
CorrectAnswerValues == { NoAnswer, IntAnswer(0), IntAnswer(7), StrAnswer("7") }
PointsValues == { NoInt, SomeInt(0), SomeInt(1), SomeInt(3) }
FeedbackValues ==
    { [general |-> NoStr, correct |-> NoStr, incorrect |-> NoStr],
      [general |-> SomeStr("G"), correct |-> SomeStr("R"), incorrect |-> SomeStr("W")] }
ImageUrlValues ==
    { NoStr, SomeStr(""), SomeStr(PlaceholderUrl),
      SomeStr("https://example.community/x.png"),
      SomeStr("https://cdn.test/a.png") }

BuildQuestions ==
    [type : TypeValues, description : DescriptionValues,
     correct_answers : CorrectAnswersValues,
     correct_answer : CorrectAnswerValues, points : PointsValues,
     feedback : FeedbackValues, image_url : ImageUrlValues]

BuildConfigs ==
    [form_info : { [has |-> FALSE, title |-> NoStr, description |-> NoStr] },
     is_quiz : IsQuizValues,
     questions : { <<q>> : q \in BuildQuestions }]

(***************************************************************************)
(* Specifications.                                                         *)
(***************************************************************************)
\* a call of create_form_from_config on one configuration
Init ==
    /\ config \in RunConfigs
    /\ pc = "create"
    /\ requests = << >>
    /\ trace = << >>
    /\ remote = NoRemote
    /\ error = NoError
    /\ result = NoResult

Next ==
    \/ CreateForm
    \/ ApplySettings
    \/ BuildRequest
    \/ SubmitQuestions
    \/ GetForm

Spec == Init /\ [][Next]_vars

\* the request builders applied to one question: the run stands at the
\* entry of _add_questions_to_form, phases 1 and 2 done
InitBuild ==
    /\ config \in BuildConfigs
    /\ pc = "build"
    /\ requests = << >>
    /\ trace = <<CreateCall(config, TRUE)>> \o
               (IF Len(SettingsRequests(config)) > 0
                THEN <<SettingsCall(config, TRUE)>> ELSE << >>)
    /\ remote = RemoteAfterSettings([NoRemote EXCEPT !.exists = TRUE],
                                    SettingsRequests(config))
    /\ error = NoError
    /\ result = NoResult

NextBuild == BuildRequest

SpecBuild == InitBuild /\ [][NextBuild]_vars

(***************************************************************************)
(* Properties.                                                             *)
(***************************************************************************)
SupportedTypes == {"RADIO", "CHECKBOX", "TEXT", "PARAGRAPH_TEXT", "SCALE", "IMAGE"}

\* the declared type of a question, upper-cased for the comparison
DeclaredType(q) == Upper(IF q.type.has THEN q.type.val ELSE "RADIO")

\* is_quiz as configured: true unless the key is present and false
QuizConfigured == (~config.is_quiz.has) \/ config.is_quiz.val

\* a non-empty description was supplied in form_info
DescriptionSupplied ==
    /\ config.form_info.has
    /\ config.form_info.description.has
    /\ config.form_info.description.val # ""

PositivePoints(q) == q.points.has /\ q.points.val > 0
NonEmptyAnswers(q) == q.correct_answers.has /\ q.correct_answers.val # << >>
CallsOfPhase(p) == { i \in 1..Len(trace) : trace[i].phase = p }
HasGradedItem(call) == \E m \in 1..Len(call.items) : call.items[m].grading.present
TogglesQuiz(call) ==
    \E o \in 1..Len(call.ops) :
        call.ops[o].kind = "updateSettings" /\ call.ops[o].isQuiz
PhasesOfTrace == [i \in 1..Len(trace) |-> trace[i].phase]

\* C1: a questions batch is never sent before the settings batch, createForm
\* precedes both, and a questions batch that carries a grading block comes
\* after a completed settings batch that switched quiz mode on.
QuizModeBeforeGrading ==
    \A i \in CallsOfPhase("questions") :
        /\ \A j \in CallsOfPhase("settings") : j < i
        /\ \E k \in CallsOfPhase("create") : k < i /\ trace[k].ok
        /\ HasGradedItem(trace[i]) =>
              \E j \in CallsOfPhase("settings") :
                  /\ j < i
                  /\ trace[j].ok
                  /\ TogglesQuiz(trace[j])
                  /\ \E k \in CallsOfPhase("create") : k < j /\ trace[k].ok

QuizModeBeforeGradingWitness ==
    \E i \in CallsOfPhase("questions") : HasGradedItem(trace[i])

\* C2: when some question declares an unsupported type, no questions batch
\* is ever sent, the run never reaches getForm, and once phases 1 and 2 are
\* through the run ends in the unsupported-type error naming the
\* (upper-cased) type of the first such question.
UnsupportedTypeSubmitsNothing ==
    LET bad == { k \in 1..Len(config.questions) :
                    DeclaredType(config.questions[k]) \notin SupportedTypes }
    IN  bad # {} =>
            /\ CallsOfPhase("questions") = {}
            /\ remote.items = 0
            /\ pc \notin {"get", "done"}
            /\ ~result.has
            /\ \A k \in bad :
                  (Len(requests) >= k - 1 /\ (\A j \in bad : j >= k)) =>
                      Len(requests) = k - 1
            /\ (pc = "failed" /\ \A i \in 1..Len(trace) : trace[i].ok) =>
                  /\ error.kind = "ValueError"
                  /\ \E k \in bad :
                        /\ \A j \in bad : j >= k
                        /\ error.value = DeclaredType(config.questions[k])

UnsupportedTypeSubmitsNothingWitness ==
    /\ pc = "failed"
    /\ error.kind = "ValueError"
    /\ error.value = "DATE"
    /\ Len(requests) = 1
    /\ Len(config.questions) = 2

\* the calls a run without failure makes, in order
ExpectedPhases ==
    <<"create">>
    \o (IF DescriptionSupplied \/ QuizConfigured THEN <<"settings">> ELSE << >>)
    \o (IF Len(config.questions) > 0 THEN <<"questions">> ELSE << >>)
    \o <<"get">>

\* C3: in a run without remote failure and with supported types only, the
\* calls are createForm with the title alone, a settings batch iff a
\* description was supplied or is_quiz is true, a questions batch iff there
\* are questions, then getForm; nothing else and nothing twice.
ExactCallSequence ==
    ( /\ \A i \in 1..Len(trace) : trace[i].ok
      /\ \A k \in 1..Len(config.questions) :
            DeclaredType(config.questions[k]) \in SupportedTypes ) =>
        /\ Len(trace) <= Len(ExpectedPhases)
        /\ PhasesOfTrace = SubSeq(ExpectedPhases, 1, Len(trace))
        /\ pc = "done" => PhasesOfTrace = ExpectedPhases
        /\ pc = "get" => PhasesOfTrace \o <<"get">> = ExpectedPhases
        /\ \A i \in CallsOfPhase("create") :
              /\ trace[i].op = "createForm"
              /\ trace[i].ops = << >>
              /\ trace[i].items = << >>
              /\ trace[i].title =
                    (IF config.form_info.has /\ config.form_info.title.has
                     THEN config.form_info.title.val ELSE DefaultFormTitle)
        /\ \A i \in CallsOfPhase("settings") \cup CallsOfPhase("questions") :
              trace[i].op = "batchUpdate"
        /\ \A i \in CallsOfPhase("get") : trace[i].op = "getForm"

ExactCallSequenceWitness ==
    /\ pc = "done"
    /\ PhasesOfTrace = <<"create", "get">>
    /\ config.form_info.has
    /\ config.form_info.description.has

\* C4: a failed call of phase 1, 2 or 3 is the last call of the run: nothing
\* follows it (no later phase, no retry, no rollback), no result is
\* returned, and after a failure in phase 2 or 3 the form shell exists.
RemoteFailureAborts ==
    /\ \A i \in 1..Len(trace) :
          (~trace[i].ok /\ trace[i].phase \in {"create", "settings", "questions"}) =>
              /\ i = Len(trace)
              /\ pc = "failed"
              /\ error.kind = "RemoteCallFailure"
              /\ ~result.has
              /\ trace[i].phase \in {"settings", "questions"} => remote.exists
              /\ trace[i].phase = "create" => ~remote.exists
              /\ trace[i].phase \in {"create", "settings"} => remote.items = 0
    /\ \A i \in 1..Len(trace) : trace[i].op \in {"createForm", "batchUpdate", "getForm"}
    /\ \A i, j \in 1..Len(trace) : trace[i].phase = trace[j].phase => i = j

RemoteFailureAbortsWitness ==
    /\ pc = "failed"
    /\ Len(trace) = 3
    /\ trace[3].phase = "questions"
    /\ ~trace[3].ok
    /\ remote.exists

\* C5: the questions batch holds one createItem per question, in input
\* order, and the i-th one has location index i (counting from 0).
IndicesFollowInputOrder ==
    /\ \A i \in 1..Len(requests) : requests[i].index = i - 1
    /\ \A c \in CallsOfPhase("questions") :
          /\ Len(trace[c].items) = Len(config.questions)
          /\ \A i \in 1..Len(trace[c].items) :
                /\ trace[c].items[i].index = i - 1
                /\ trace[c].items[i] =
                      create_question_request(config.questions[i], i - 1,
                                              QuizConfigured).req

IndicesFollowInputOrderWitness ==
    \E c \in CallsOfPhase("questions") :
        /\ Len(trace[c].items) >= 2
        /\ trace[c].items[1] # [trace[c].items[2] EXCEPT !.index = 0]

\* the trigger of a grading block, by type
GradingTrigger(q) ==
    LET t == DeclaredType(q)
    IN  CASE t \in {"RADIO", "CHECKBOX", "IMAGE"} -> NonEmptyAnswers(q)
          [] t = "TEXT" -> NonEmptyAnswers(q) \/ PositivePoints(q)
          [] t = "PARAGRAPH_TEXT" -> PositivePoints(q)
          [] t = "SCALE" ->
                \/ q.correct_answer.kind = "int"
                \/ q.correct_answer.kind = "str" /\ q.correct_answer.s # ""
                \/ PositivePoints(q)
          [] OTHER -> FALSE

\* C6: a request carries a grading block only if is_quiz is true and the
\* question supplies the trigger of its type; with is_quiz false no request
\* carries one.
GradingOnlyForQuizWithTrigger ==
    \A i \in 1..Len(requests) :
        requests[i].grading.present =>
            QuizConfigured /\ GradingTrigger(config.questions[i])

GradingOnlyForQuizWithTriggerWitness ==
    /\ Len(requests) = 1
    /\ requests[1].grading.present
    /\ DeclaredType(config.questions[1]) = "CHECKBOX"

\* image_url is present, non-empty and not a placeholder
Forwardable(q) ==
    /\ q.image_url.has
    /\ q.image_url.val # ""
    /\ q.image_url.val # PlaceholderUrl
    /\ ~StartsWith(q.image_url.val, PlaceholderPrefix)

\* C7: for every type, a request carries an image attachment iff image_url
\* is present, non-empty, not the placeholder and not under the placeholder
\* prefix, and then sourceUri is image_url unchanged.
ImageIffNotPlaceholder ==
    \A i \in 1..Len(requests) :
        /\ requests[i].image.has <=> Forwardable(config.questions[i])
        /\ requests[i].image.has =>
              requests[i].image.val = config.questions[i].image_url.val

ImageIffNotPlaceholderWitness ==
    /\ Len(requests) = 1
    /\ ~requests[1].image.has
    /\ config.questions[1].image_url.has
    /\ config.questions[1].image_url.val # PlaceholderUrl
    /\ StartsWith(config.questions[1].image_url.val, PlaceholderPrefix)

\* image_url is recognized as a placeholder
IsPlaceholder(q) ==
    /\ q.image_url.has
    /\ \/ q.image_url.val = PlaceholderUrl
       \/ StartsWith(q.image_url.val, PlaceholderPrefix)

\* C8: for an IMAGE question with a placeholder image_url the description
\* is the configured description, unchanged, followed by the placeholder
\* note, and there is no image; otherwise it is the configured description.
ImageDescriptionKept ==
    \A i \in 1..Len(requests) :
        LET q == config.questions[i]
            d == IF q.description.has THEN q.description.val ELSE ""
        IN  DeclaredType(q) = "IMAGE" =>
                IF IsPlaceholder(q)
                THEN /\ \/ requests[i].description = d \o "\n" \o PlaceholderNote
                        \/ d = "" /\ requests[i].description = PlaceholderNote
                     /\ ~requests[i].image.has
                ELSE requests[i].description = d

\* C9: a SCALE question under is_quiz that supplies a correct_answer gets
\* the single-answer grading block with str(correct_answer), whatever the
\* value; the points-only block needs no correct_answer and points > 0.
ScaleAnswerTakesPrecedence ==
    \A i \in 1..Len(requests) :
        LET q == config.questions[i]
            g == requests[i].grading
        IN  (DeclaredType(q) = "SCALE" /\ QuizConfigured) =>
                /\ q.correct_answer.kind # "absent" =>
                      /\ g.present
                      /\ g.hasCorrectAnswers
                      /\ g.correctAnswers = <<AnswerStr(q.correct_answer)>>
                /\ (g.present /\ ~g.hasCorrectAnswers) =>
                      /\ q.correct_answer.kind = "absent"
                      /\ PositivePoints(q)

\* C10: a TEXT question under is_quiz with non-empty correct_answers is
\* graded by the correct-answer branch (pointValue = points, the answers in
\* order, optional general feedback) whatever points is; the points-only
\* block needs absent or empty correct_answers and points > 0.
TextAnswerBranchFirst ==
    \A i \in 1..Len(requests) :
        LET q == config.questions[i]
            g == requests[i].grading
        IN  (DeclaredType(q) = "TEXT" /\ QuizConfigured) =>
                /\ NonEmptyAnswers(q) =>
                      /\ g.present
                      /\ g.hasCorrectAnswers
                      /\ g.correctAnswers = q.correct_answers.val
                      /\ g.pointValue = (IF q.points.has THEN q.points.val ELSE 1)
                      /\ g.generalFeedback =
                            (IF q.feedback.general.has /\ q.feedback.general.val # ""
                             THEN q.feedback.general ELSE NoStr)
                      /\ ~g.whenRight.has /\ ~g.whenWrong.has
                /\ (g.present /\ ~g.hasCorrectAnswers) =>
                      /\ ~NonEmptyAnswers(q)
                      /\ PositivePoints(q)
                      /\ g.correctAnswers = << >>

TextAnswerBranchFirstWitness ==
    /\ Len(requests) = 1
    /\ DeclaredType(config.questions[1]) = "TEXT"
    /\ NonEmptyAnswers(config.questions[1])
    /\ PositivePoints(config.questions[1])
    /\ requests[1].grading.hasCorrectAnswers

\* the question supplies no correct answer of the kind its type grades by
NoCorrectAnswer(q) ==
    /\ ~NonEmptyAnswers(q)
    /\ q.correct_answer.kind = "absent"

\* C11: under is_quiz, a TEXT, PARAGRAPH_TEXT or SCALE question that omits
\* points and supplies no correct answer is treated as having points = 1:
\* it gets the points-only grading block with pointValue 1, and its request
\* is the one built for the same question with points: 1 written out.
PointsDefaultApplied ==
    \A i \in 1..Len(requests) :
        LET q == config.questions[i]
            g == requests[i].grading
        IN  ( /\ DeclaredType(q) \in {"TEXT", "PARAGRAPH_TEXT", "SCALE"}
              /\ QuizConfigured
              /\ ~q.points.has
              /\ NoCorrectAnswer(q) ) =>
                /\ g.present
                /\ ~g.hasCorrectAnswers
                /\ g.pointValue = 1
                /\ requests[i] =
                      create_question_request([q EXCEPT !.points = SomeInt(1)],
                                              i - 1, QuizConfigured).req

====
